---- MODULE Spec2Model ----
(***************************************************************************)
(* Model of app.py, the command-line client of the fixer currency API:     *)
(* make_get_request, the three request handlers, quit_program, the         *)
(* dispatcher handle_choices and the menu loop main.                       *)
(*                                                                         *)
(* Console text is modelled as TLA+ strings built with \o, exactly as the  *)
(* f-strings of the source build them.  The text typed at the menu is a    *)
(* sequence of one-character strings, so that int() is a real parse.       *)
(* A response body is modelled by its JSON syntax tree; an object nested   *)
(* in it (symbols, rates, query) is its member list in document order,     *)
(* duplicates included, which json.loads folds into a dict.                *)
(* The console stays open: input() always returns a text.                  *)
(***************************************************************************)
EXTENDS Integers, Sequences, FiniteSets, TLC

\* Longest text typed at the menu prompt, in characters.
MaxInputLen == 2
\* Most members in the symbols or rates object of a response body.
MaxMembers == 2

(***************************************************************************)
(* Sequences helpers                                                       *)
(***************************************************************************)
SeqsUpTo(S, n) == UNION {[1..k -> S] : k \in 0..n}

RECURSIVE Join(_, _)
\* sep.join(parts), app.py line 125
Join(parts, sep) ==
    IF Len(parts) = 0 THEN ""
    ELSE IF Len(parts) = 1 THEN parts[1]
    ELSE parts[1] \o sep \o Join(Tail(parts), sep)

(***************************************************************************)
(* int(text): the conversion main applies to the menu text (line 214).     *)
(* Python strips surrounding whitespace, accepts one optional sign and     *)
(* then requires at least one digit and nothing but digits.                *)
(***************************************************************************)
Digits == {"1", "2", "3", "4", "5"}
Chars == Digits \cup {"x", "-", " "}
MenuTexts == SeqsUpTo(Chars, MaxInputLen)

DigitValue(c) ==
    CASE c = "1" -> 1 [] c = "2" -> 2 [] c = "3" -> 3 [] c = "4" -> 4 [] c = "5" -> 5

RECURSIVE LStrip(_)
LStrip(s) == IF Len(s) > 0 /\ s[1] = " " THEN LStrip(Tail(s)) ELSE s

RECURSIVE RStrip(_)
RStrip(s) ==
    IF Len(s) > 0 /\ s[Len(s)] = " " THEN RStrip(SubSeq(s, 1, Len(s) - 1)) ELSE s

Strip(s) == RStrip(LStrip(s))

RECURSIVE DigitsValue(_)
DigitsValue(d) ==
    IF Len(d) = 0 THEN 0
    ELSE 10 * DigitsValue(SubSeq(d, 1, Len(d) - 1)) + DigitValue(d[Len(d)])

\* [ok |-> FALSE] stands for ValueError.
IntOfText(s) ==
    LET t == Strip(s)
        neg == Len(t) > 0 /\ t[1] = "-"
        d == IF neg THEN Tail(t) ELSE t
    IN  IF Len(d) = 0 \/ \E i \in 1..Len(d) : d[i] \notin Digits
        THEN [ok |-> FALSE, value |-> 0]
        ELSE [ok |-> TRUE, value |-> IF neg THEN 0 - DigitsValue(d) ELSE DigitsValue(d)]

\* The last line of the traceback of int(text)'s ValueError.
ValueErrorLine(s) ==
    "ValueError: invalid literal for int() with base 10: '" \o Join(s, "") \o "'"

\* int(choice) inside handle_choices (line 179): choice is already an int
\* there, and int() of an int returns it and raises nothing.
IntOfInt(v) == [ok |-> TRUE, value |-> v]

(***************************************************************************)
(* JSON text and json.loads (lines 52, 85, 131)                            *)
(***************************************************************************)
JGarbage == [t |-> "garbage"]
JNull == [t |-> "null"]
JArray == [t |-> "array"]
JTrue == [t |-> "true"]
JFalse == [t |-> "false"]
JString(s) == [t |-> "string", s |-> s]
JNumber(s) == [t |-> "number", s |-> s]
JObject(members) == [t |-> "object", members |-> members]

PyNone == [type |-> "NoneType"]
PyList == [type |-> "list"]
PyBool(b) == [type |-> "bool", b |-> b]
PyStr(s) == [type |-> "str", s |-> s]
PyFloat(s) == [type |-> "float", s |-> s]
PyDict(items) == [type |-> "dict", items |-> items]

DictHas(items, k) == \E i \in 1..Len(items) : items[i][1] = k

DictIndex(items, k) == CHOOSE i \in 1..Len(items) : items[i][1] = k

DictGet(items, k) == items[DictIndex(items, k)][2]

\* DictPut of a mapping that keeps every member of the JSON text.
DictPutAppend(items, k, v) == Append(items, <<k, v>>)

\* d[k] = v on an insertion-ordered dict: a known key keeps its place and
\* takes the new value, a new key goes to the end.
DictPut(items, k, v) ==
    IF DictHas(items, k)
    THEN [items EXCEPT ![DictIndex(items, k)] = <<k, v>>]
    ELSE Append(items, <<k, v>>)

RECURSIVE Decode(_)
RECURSIVE DictFromMembers(_)
\* The dict json.loads builds from an object's members, read left to right.
DictFromMembers(members) ==
    IF Len(members) = 0 THEN <<>>
    ELSE LET n == Len(members)
         IN  DictPut(DictFromMembers(SubSeq(members, 1, n - 1)),
                     members[n][1], Decode(members[n][2]))

\* The Python value of a well-formed JSON value.
Decode(j) ==
    CASE j.t = "null" -> PyNone
      [] j.t = "array" -> PyList
      [] j.t = "true" -> PyBool(TRUE)
      [] j.t = "false" -> PyBool(FALSE)
      [] j.t = "string" -> PyStr(j.s)
      [] j.t = "number" -> PyFloat(j.s)
      [] j.t = "object" -> PyDict(DictFromMembers(j.members))

\* json.loads(text): JSONDecodeError on text that is not JSON.
json_loads(text) ==
    IF text.t = "garbage"
    THEN [raised |-> TRUE, msg |-> "Expecting value: line 1 column 1 (char 0)",
          value |-> PyNone]
    ELSE [raised |-> FALSE, msg |-> "", value |-> Decode(text)]

\* Truthy of a handler that tests the presence of success, not its value.
TruthyPresent(v) == TRUE

\* bool(v), as the if statements of lines 54, 87 and 133 apply it.
Truthy(v) ==
    CASE v.type = "NoneType" -> FALSE
      [] v.type = "list" -> FALSE
      [] v.type = "bool" -> v.b
      [] v.type = "str" -> v.s # ""
      [] v.type = "float" -> v.s \notin {"0", "0.0"}
      [] v.type = "dict" -> Len(v.items) > 0

\* str(v), as an f-string formats a value (lines 59, 91, 95, 140, 144).
Str(v) ==
    CASE v.type = "NoneType" -> "None"
      [] v.type = "list" -> "[]"
      [] v.type = "bool" -> (IF v.b THEN "True" ELSE "False")
      [] v.type = "str" -> v.s
      [] v.type = "float" -> v.s
      [] v.type = "dict" -> (IF Len(v.items) = 0 THEN "{}" ELSE "{...}")

\* str() of the exceptions the handlers' try blocks can raise.
KeyErrorMsg(k) == "'" \o k \o "'"

AttributeErrorMsg(v, attr) ==
    "'" \o v.type \o "' object has no attribute '" \o attr \o "'"

SubscriptErrorMsg(v) ==
    CASE v.type = "str" -> "string indices must be integers"
      [] v.type = "list" -> "list indices must be integers or slices, not str"
      [] OTHER -> "'" \o v.type \o "' object is not subscriptable"

\* What a try block did: the lines it printed, and the exception that ended
\* it, if one did.
Completed(lines) == [printed |-> lines, raised |-> FALSE, msg |-> ""]

Raised(lines, msg) == [printed |-> lines, raised |-> TRUE, msg |-> msg]

\* v[k] for a value taken from the parsed response: the value, or the
\* message of the KeyError or TypeError.
Subscript(v, k) ==
    IF v.type # "dict" THEN [raised |-> TRUE, msg |-> SubscriptErrorMsg(v), value |-> PyNone]
    ELSE IF ~DictHas(v.items, k) THEN [raised |-> TRUE, msg |-> KeyErrorMsg(k), value |-> PyNone]
    ELSE [raised |-> FALSE, msg |-> "", value |-> DictGet(v.items, k)]

(***************************************************************************)
(* The network: what requests.get meets (line 30)                          *)
(***************************************************************************)
\* Final status codes of a response: success, a redirect status that
\* requests does not follow (304 carries no Location), client and server
\* error.
Statuses == {200, 304, 404, 500}

TransportCauses == {"ConnectTimeout", "ConnectionError"}

Reason(status) ==
    CASE status = 200 -> "OK"
      [] status = 304 -> "Not Modified"
      [] status = 404 -> "Not Found"
      [] status = 500 -> "Internal Server Error"

StatusText(status) ==
    CASE status = 200 -> "200"
      [] status = 304 -> "304"
      [] status = 404 -> "404"
      [] status = 500 -> "500"

\* One outcome of requests.get: no response at all, or a final response.
TransportFailure(cause) ==
    [kind |-> "transport", cause |-> cause, status |-> 0, text |-> JGarbage]

HttpResponse(status, text) ==
    [kind |-> "http", cause |-> "", status |-> status, text |-> text]

\* response.raise_for_status() (line 32): HTTPError for a 4xx or 5xx status
\* and for no other.
raise_for_status(status, url) ==
    IF 400 <= status /\ status < 500
    THEN [raised |-> TRUE,
          msg |-> StatusText(status) \o " Client Error: " \o Reason(status)
                  \o " for url: " \o url]
    ELSE IF 500 <= status /\ status < 600
    THEN [raised |-> TRUE,
          msg |-> StatusText(status) \o " Server Error: " \o Reason(status)
                  \o " for url: " \o url]
    ELSE [raised |-> FALSE, msg |-> ""]

\* make_get_request without the call of raise_for_status.
make_get_request_no_status_check(endpoint, net) ==
    IF net.kind = "transport"
    THEN [raised |-> TRUE, msg |-> "Request failed with error: " \o net.cause,
          value |-> JGarbage]
    ELSE [raised |-> FALSE, msg |-> "", value |-> net.text]

\* make_get_request(endpoint, headers, timeout) against the outcome net.
make_get_request(endpoint, net) ==
    IF net.kind = "transport"
    THEN [raised |-> TRUE, msg |-> "Request failed with error: " \o net.cause,
          value |-> JGarbage]
    ELSE LET st == raise_for_status(net.status, endpoint)
         IN  IF st.raised
             THEN [raised |-> TRUE, msg |-> "Request failed with error: " \o st.msg,
                   value |-> JGarbage]
             ELSE [raised |-> FALSE, msg |-> "", value |-> net.text]

(***************************************************************************)
(* The handlers                                                            *)
(***************************************************************************)
SymbolsEndpoint == "https://api.apilayer.com/fixer/symbols"

ConvertEndpoint(from_currency, to_currency, amount) ==
    "https://api.apilayer.com/fixer/convert?to=" \o to_currency
        \o "&from=" \o from_currency \o "&amount=" \o amount

LatestEndpoint(base, symbols) ==
    LET params == <<"?">>
                  \o (IF symbols # "" THEN <<"symbols=" \o symbols>> ELSE <<>>)
                  \o (IF base # "" THEN <<"base=" \o base>> ELSE <<>>)
    IN  "https://api.apilayer.com/fixer/latest" \o Join(params, "&")

\* The lines of "for code, value in mapping.items(): print(f'{code}: {value}')".
ItemLines(items) == [i \in 1..Len(items) |-> items[i][1] \o ": " \o Str(items[i][2])]

\* Caught with an except clause that swallows the exception.
CaughtSilently(try) == try.printed

\* What the except clause of a handler adds to what its try block printed.
Caught(try) ==
    try.printed
        \o (IF try.raised THEN <<"Request failed with error: " \o try.msg>> ELSE <<>>)

\* The try block of get_currencies, lines 49-62.
get_currencies_try(net) ==
    LET r == make_get_request(SymbolsEndpoint, net)
        p == json_loads(r.value)
        success == Subscript(p.value, "success")
        symbols == Subscript(p.value, "symbols")
    IN  IF r.raised THEN Raised(<<>>, r.msg)
        ELSE IF p.raised THEN Raised(<<>>, p.msg)
        ELSE IF success.raised THEN Raised(<<>>, success.msg)
        ELSE IF Truthy(success.value)
        THEN IF symbols.raised THEN Raised(<<>>, symbols.msg)
             ELSE IF symbols.value.type # "dict"
             THEN Raised(<<>>, AttributeErrorMsg(symbols.value, "items"))
             ELSE Completed(ItemLines(symbols.value.items))
        ELSE Completed(<<"Error while accessing symbols">>)

\* get_currencies(): the lines it prints.
get_currencies(net) == Caught(get_currencies_try(net))

\* parsed_data.get(key, default), lines 87, 94, 133.
DictGetOr(v, k, default) ==
    IF v.type # "dict"
    THEN [raised |-> TRUE, msg |-> AttributeErrorMsg(v, "get"), value |-> PyNone]
    ELSE [raised |-> FALSE, msg |-> "",
          value |-> IF DictHas(v.items, k) THEN DictGet(v.items, k) ELSE default]

\* ConvertErrorLine of a convert_currency that ignores the message field.
ConvertErrorLineGeneric(parsed_data) ==
    "Error while accessing symbols: An unknown error occurred"

\* The line convert_currency prints for a response that does not report
\* success (lines 94-95); parsed_data is a dict there.
ConvertErrorLine(parsed_data) ==
    "Error while accessing symbols: "
        \o Str(DictGetOr(parsed_data, "message", PyStr("An unknown error occurred")).value)

\* The try block of convert_currency, lines 83-95.
convert_currency_try(from_currency, to_currency, amount, net) ==
    LET r == make_get_request(ConvertEndpoint(from_currency, to_currency, amount), net)
        p == json_loads(r.value)
        success == DictGetOr(p.value, "success", PyBool(FALSE))
        result == Subscript(p.value, "result")
        query == Subscript(p.value, "query")
        q_amount == Subscript(query.value, "amount")
        q_from == Subscript(query.value, "from")
        q_to == Subscript(query.value, "to")
    IN  IF r.raised THEN Raised(<<>>, r.msg)
        ELSE IF p.raised THEN Raised(<<>>, p.msg)
        ELSE IF success.raised THEN Raised(<<>>, success.msg)
        ELSE IF Truthy(success.value)
        THEN IF result.raised THEN Raised(<<>>, result.msg)
             ELSE IF query.raised THEN Raised(<<>>, query.msg)
             ELSE IF q_amount.raised THEN Raised(<<>>, q_amount.msg)
             ELSE IF q_from.raised THEN Raised(<<>>, q_from.msg)
             ELSE IF q_to.raised THEN Raised(<<>>, q_to.msg)
             ELSE Completed(<<"\n" \o Str(q_amount.value) \o " " \o Str(q_from.value)
                              \o " ----> " \o Str(result.value) \o " "
                              \o Str(q_to.value)>>)
        ELSE Completed(<<ConvertErrorLine(p.value)>>)

\* convert_currency(from_currency, to_currency, amount): the lines it prints.
convert_currency(from_currency, to_currency, amount, net) ==
    Caught(convert_currency_try(from_currency, to_currency, amount, net))

\* The try block of get_exchange_rate, lines 128-147.
get_exchange_rate_try(base, symbols, net) ==
    LET r == make_get_request(LatestEndpoint(base, symbols), net)
        p == json_loads(r.value)
        success == DictGetOr(p.value, "success", PyBool(FALSE))
        r_base == Subscript(p.value, "base")
        r_date == Subscript(p.value, "date")
        r_rates == Subscript(p.value, "rates")
        head == <<"\nBase: " \o Str(r_base.value) \o "\tDate: " \o Str(r_date.value),
                  "Rates: ">>
    IN  IF r.raised THEN Raised(<<>>, r.msg)
        ELSE IF p.raised THEN Raised(<<>>, p.msg)
        ELSE IF success.raised THEN Raised(<<>>, success.msg)
        ELSE IF Truthy(success.value)
        THEN IF r_base.raised THEN Raised(<<>>, r_base.msg)
             ELSE IF r_date.raised THEN Raised(<<>>, r_date.msg)
             ELSE IF r_rates.raised THEN Raised(<<>>, r_rates.msg)
             ELSE IF r_rates.value.type # "dict"
             THEN Raised(head, AttributeErrorMsg(r_rates.value, "items"))
             ELSE Completed(head \o ItemLines(r_rates.value.items))
        ELSE Completed(<<"Error while accessing data">>)

\* get_exchange_rate(base, symbols): the lines it prints.
get_exchange_rate(base, symbols, net) == Caught(get_exchange_rate_try(base, symbols, net))

\* quit_program(): the line it prints before sys.exit(0) (line 157).
QuitLine == "See ya!!"

\* QuitStatus of a quit_program that exits with status 1.
QuitStatusFailure == "exit1"

\* The status sys.exit(0) ends the process with (line 159).
QuitStatus == "exit0"

(***************************************************************************)
(* The dispatcher's tables                                                 *)
(***************************************************************************)
\* choice_handlers of a lookup whose default is a handler, not None.
choice_handlers_default(int_value) ==
    CASE int_value = 2 -> "convert_currency"
      [] int_value = 3 -> "get_exchange_rate"
      [] int_value = 4 -> "quit_program"
      [] OTHER -> "get_currencies"

\* choice_handlers.get(int_value, None), lines 163-168 and 185.
choice_handlers(int_value) ==
    CASE int_value = 1 -> "get_currencies"
      [] int_value = 2 -> "convert_currency"
      [] int_value = 3 -> "get_exchange_rate"
      [] int_value = 4 -> "quit_program"
      [] OTHER -> "None"

PromptFrom == "Enter the from currency: "
PromptTo == "Enter the to currency: "
PromptAmount == "Enter the amount: "
PromptBase == "Enter the three-letter currency code of your preferred base currency: "
PromptSymbols == "Enter a list of comma-separated currency codes to limit output currencies: "

\* ExtraPrompts of a dispatcher that asks for the to currency first.
ExtraPromptsSwapped(int_value) ==
    CASE int_value = 2 -> <<PromptTo, PromptFrom, PromptAmount>>
      [] int_value = 3 -> <<PromptBase, PromptSymbols>>
      [] OTHER -> <<>>

\* The input() calls handle_choices makes before it calls the handler, in
\* order (lines 188-201).
ExtraPrompts(int_value) ==
    CASE int_value = 2 -> <<PromptFrom, PromptTo, PromptAmount>>
      [] int_value = 3 -> <<PromptBase, PromptSymbols>>
      [] OTHER -> <<>>

InvalidLine == "Invalid input. Please enter a valid choice."

(***************************************************************************)
(* Inputs: what the user types and what the server answers                 *)
(***************************************************************************)
InputTexts(prompt) ==
    CASE prompt = PromptFrom -> {"USD", "EUR"}
      [] prompt = PromptTo -> {"USD", "EUR"}
      [] prompt = PromptAmount -> {"10"}
      [] prompt = PromptBase -> {"", "USD"}
      [] prompt = PromptSymbols -> {"", "EUR,GBP"}

Member(k, opt) == IF Len(opt) = 0 THEN <<>> ELSE << <<k, opt[1]>> >>

SuccessOpt == {<<>>, <<JTrue>>, <<JFalse>>}
MessageOpt == {<<>>, <<JString("Invalid API key")>>, <<JString("Rate limit exceeded")>>}
SymbolMembers ==
    {<<"USD", JString("United States Dollar")>>, <<"EUR", JString("Euro")>>,
     <<"USD", JString("US Dollar")>>}
SymbolsOpt ==
    {<<>>, <<JString("n/a")>>}
        \cup {<<JObject(m)>> : m \in SeqsUpTo(SymbolMembers, MaxMembers)}
RateMembers == {<<"USD", JNumber("1.07")>>, <<"GBP", JNumber("0.88")>>}
RatesOpt ==
    {<<>>, <<JString("n/a")>>}
        \cup {<<JObject(m)>> : m \in SeqsUpTo(RateMembers, MaxMembers)}
ResultOpt == {<<>>, <<JNumber("8.5")>>}
QueryOpt ==
    {<<>>,
     <<JObject(<< <<"amount", JNumber("10")>>, <<"from", JString("USD")>>,
                  <<"to", JString("EUR")>> >>)>>,
     <<JObject(<< <<"amount", JNumber("10")>>, <<"from", JString("USD")>> >>)>>}
BaseOpt == {<<>>, <<JString("EUR")>>}
DateOpt == {<<>>, <<JString("2023-01-15")>>}

\* Bodies shaped like the answers of the three endpoints, each field
\* present or missing, and bodies that are no JSON object at all.
SymbolsBodies ==
    {JObject(Member("success", s) \o Member("message", m) \o Member("symbols", y)) :
        s \in SuccessOpt, m \in MessageOpt, y \in SymbolsOpt}
ConvertBodies ==
    {JObject(Member("success", s) \o Member("message", m) \o Member("query", q)
             \o Member("result", r)) :
        s \in SuccessOpt, m \in MessageOpt, q \in QueryOpt, r \in ResultOpt}
LatestBodies ==
    {JObject(Member("success", s) \o Member("message", m) \o Member("base", b)
             \o Member("date", d) \o Member("rates", r)) :
        s \in SuccessOpt, m \in MessageOpt, b \in BaseOpt, d \in DateOpt, r \in RatesOpt}
Bodies ==
    {JGarbage, JNull, JArray, JString("Bad Gateway"), JNumber("0.5")}
        \cup SymbolsBodies \cup ConvertBodies \cup LatestBodies

\* What an error page carries.
ErrorBodies == {JGarbage, JObject(<< <<"message", JString("Invalid API key")>> >>)}

NetOutcomes ==
    {TransportFailure(c) : c \in TransportCauses}
        \cup {HttpResponse(200, b) : b \in Bodies}
        \cup {HttpResponse(st, b) : st \in Statuses \ {200}, b \in ErrorBodies}

(***************************************************************************)
(* State                                                                   *)
(***************************************************************************)
VARIABLES
    pc,          \* where the program is: "menu" is the input() of main
    status,      \* "running", or how the process ended
    typed,       \* the menu text main is converting or died of, as <<text>>
    stderr,      \* the last line of the traceback, if the process died of one
    choice,      \* main's local variable choice
    handler,     \* handle_choices' local handler ("" before the lookup)
    prompts,     \* the prompts handle_choices has shown in this iteration
    inputs,      \* what was typed at them
    call,        \* the handler call of this iteration
    inflight,    \* the GET the program is blocked in
    gets,        \* GETs issued in this iteration
    lastNet,     \* what the GET of this iteration met
    lastResult,  \* what make_get_request made of it
    out,         \* lines printed in this iteration
    seenMalformed \* whether a 2xx answer so far was malformed

vars == <<pc, status, typed, stderr, choice, handler, prompts, inputs, call, inflight,
          gets, lastNet, lastResult, out, seenMalformed>>

NoCall == [name |-> "", args |-> <<>>]
NoRequest == [endpoint |-> "", timeout |-> 0]
NoNet == [kind |-> "none", cause |-> "", status |-> 0, text |-> JGarbage]
NoResult == [raised |-> FALSE, msg |-> "", value |-> JGarbage]

Init ==
    /\ pc = "menu"
    /\ status = "running"
    /\ typed = <<>>
    /\ stderr = ""
    /\ choice = 0
    /\ handler = ""
    /\ prompts = <<>>
    /\ inputs = <<>>
    /\ call = NoCall
    /\ inflight = NoRequest
    /\ gets = 0
    /\ lastNet = NoNet
    /\ lastResult = NoResult
    /\ out = <<>>
    /\ seenMalformed = FALSE

\* main at its input() (lines 212-222): a new pass of the loop begins and
\* the user types a text.  What the previous pass left on the console is
\* no longer observed.
main_input ==
    /\ pc = "menu"
    /\ \E text \in MenuTexts : typed' = <<text>>
    /\ pc' = "int"
    /\ handler' = ""
    /\ prompts' = <<>>
    /\ inputs' = <<>>
    /\ call' = NoCall
    /\ inflight' = NoRequest
    /\ gets' = 0
    /\ lastNet' = NoNet
    /\ lastResult' = NoResult
    /\ out' = <<>>
    /\ UNCHANGED <<status, stderr, choice, seenMalformed>>

\* main's int() of the text and its call of handle_choices (lines 214,
\* 224).  A ValueError of int() is caught nowhere: the traceback ends the
\* process with status 1.
main_int ==
    /\ pc = "int"
    /\ LET v == IntOfText(typed[1])
       IN  IF v.ok
           THEN /\ choice' = v.value
                /\ pc' = "handle_choices"
                /\ typed' = <<>>
                /\ UNCHANGED <<status, stderr>>
           ELSE /\ pc' = "crashed"
                /\ status' = "exit1"
                /\ stderr' = ValueErrorLine(typed[1])
                /\ UNCHANGED <<choice, typed>>
    /\ UNCHANGED <<handler, prompts, inputs, call, inflight, gets, lastNet,
                   lastResult, out, seenMalformed>>

\* handle_choices up to its first input() or its call of the handler
\* (lines 177-205).
handle_choices ==
    /\ pc = "handle_choices"
    /\ LET iv == IntOfInt(choice)
           h == choice_handlers(iv.value)
       IN  IF ~iv.ok
           THEN /\ out' = Append(out, InvalidLine)
                /\ pc' = "menu"
                /\ UNCHANGED <<handler, call>>
           ELSE IF h = "None"
           THEN /\ out' = Append(out, InvalidLine)
                /\ pc' = "menu"
                /\ handler' = h
                /\ call' = call
           ELSE IF Len(ExtraPrompts(iv.value)) > 0
           THEN /\ pc' = "input"
                /\ handler' = h
                /\ UNCHANGED <<out, call>>
           ELSE /\ pc' = h
                /\ handler' = h
                /\ call' = [name |-> h, args |-> <<>>]
                /\ out' = out
    /\ UNCHANGED <<status, typed, stderr, choice, prompts, inputs, inflight, gets,
                   lastNet, lastResult, seenMalformed>>

\* One input() of handle_choices; after the last one the handler is called
\* with what was typed, in the order it was typed (lines 190-198).
ReadInput ==
    /\ pc = "input"
    /\ LET todo == ExtraPrompts(choice)
           prompt == todo[Len(inputs) + 1]
       IN  \E text \in InputTexts(prompt) :
            /\ prompts' = Append(prompts, prompt)
            /\ inputs' = Append(inputs, text)
            /\ IF Len(inputs) + 1 = Len(todo)
               THEN /\ pc' = handler
                    /\ call' = [name |-> handler, args |-> Append(inputs, text)]
               ELSE UNCHANGED <<pc, call>>
    /\ UNCHANGED <<status, typed, stderr, choice, handler, inflight, gets, lastNet,
                   lastResult, out, seenMalformed>>

\* get_currencies up to the GET it blocks in (lines 45-50).
get_currencies_request ==
    /\ pc = "get_currencies"
    /\ inflight' = [endpoint |-> SymbolsEndpoint, timeout |-> 5]
    /\ gets' = gets + 1
    /\ pc' = "request"
    /\ UNCHANGED <<status, typed, stderr, choice, handler, prompts, inputs, call,
                   lastNet, lastResult, out, seenMalformed>>

\* convert_currency up to the GET it blocks in (lines 78-84).
convert_currency_request ==
    /\ pc = "convert_currency"
    /\ inflight' = [endpoint |-> ConvertEndpoint(call.args[1], call.args[2], call.args[3]),
                    timeout |-> 10]
    /\ gets' = gets + 1
    /\ pc' = "request"
    /\ UNCHANGED <<status, typed, stderr, choice, handler, prompts, inputs, call,
                   lastNet, lastResult, out, seenMalformed>>

\* get_exchange_rate up to the GET it blocks in (lines 111-129).
get_exchange_rate_request ==
    /\ pc = "get_exchange_rate"
    /\ inflight' = [endpoint |-> LatestEndpoint(call.args[1], call.args[2]),
                    timeout |-> 5]
    /\ gets' = gets + 1
    /\ pc' = "request"
    /\ UNCHANGED <<status, typed, stderr, choice, handler, prompts, inputs, call,
                   lastNet, lastResult, out, seenMalformed>>

\* The fields a handler reads from a response that reports success
\* (lines 56, 89-90, 135-139).
FieldsRead(name) ==
    CASE name = "get_currencies" -> {"symbols"}
      [] name = "convert_currency" -> {"result", "query"}
      [] name = "get_exchange_rate" -> {"base", "date", "rates"}

\* A 2xx answer the handler cannot use: no JSON, no JSON object, or an
\* object that reports success and lacks a field the handler reads.
Malformed(name, net) ==
    /\ net.kind = "http"
    /\ net.status \in 200..299
    /\ \/ net.text.t # "object"
       \/ LET d == Decode(net.text).items
          IN  /\ DictHas(d, "success")
              /\ Truthy(DictGet(d, "success"))
              /\ \E f \in FieldsRead(name) : ~DictHas(d, f)

\* The rest of a handler, from the end of the GET to its return, after
\* which handle_choices returns and main is at its input() again.
Returns(net, lines) ==
    /\ lastNet' = net
    /\ seenMalformed' = (seenMalformed \/ Malformed(call.name, net))
    /\ lastResult' = make_get_request(inflight.endpoint, net)
    /\ out' = out \o lines
    /\ inflight' = NoRequest
    /\ pc' = "menu"
    /\ UNCHANGED <<status, typed, stderr, choice, handler, prompts, inputs, call, gets>>

\* get_currencies from the end of the GET on (lines 50-65).
get_currencies_response ==
    /\ pc = "request"
    /\ call.name = "get_currencies"
    /\ \E net \in NetOutcomes : Returns(net, get_currencies(net))

\* convert_currency from the end of the GET on (lines 84-98).
convert_currency_response ==
    /\ pc = "request"
    /\ call.name = "convert_currency"
    /\ \E net \in NetOutcomes :
        Returns(net, convert_currency(call.args[1], call.args[2], call.args[3], net))

\* get_exchange_rate from the end of the GET on (lines 129-150).
get_exchange_rate_response ==
    /\ pc = "request"
    /\ call.name = "get_exchange_rate"
    /\ \E net \in NetOutcomes :
        Returns(net, get_exchange_rate(call.args[1], call.args[2], net))

\* quit_program (lines 157-159): SystemExit is no Exception and nothing on
\* the way up catches it.
quit_program ==
    /\ pc = "quit_program"
    /\ out' = Append(out, QuitLine)
    /\ status' = QuitStatus
    /\ pc' = "exited"
    /\ UNCHANGED <<typed, stderr, choice, handler, prompts, inputs, call, inflight,
                   gets, lastNet, lastResult, seenMalformed>>

Next ==
    \/ main_input
    \/ main_int
    \/ handle_choices
    \/ ReadInput
    \/ get_currencies_request
    \/ convert_currency_request
    \/ get_exchange_rate_request
    \/ get_currencies_response
    \/ convert_currency_response
    \/ get_exchange_rate_response
    \/ quit_program

Spec == Init /\ [][Next]_vars

(***************************************************************************)
(* Properties                                                              *)
(***************************************************************************)
\* The handler of this pass got a body back from make_get_request.
GotBody == lastNet.kind = "http" /\ ~lastResult.raised

\* The GET of this pass failed: no response, or an error status.
RequestFailed ==
    \/ lastNet.kind = "transport"
    \/ lastNet.kind = "http" /\ lastNet.status >= 400

\* Members of a JSON object as the text gives them; the last one of a name
\* is the one that counts.
HasMember(j, k) == \E i \in 1..Len(j.members) : j.members[i][1] = k

LastMember(j, k) ==
    LET i == CHOOSE n \in 1..Len(j.members) :
                 /\ j.members[n][1] = k
                 /\ \A m \in (n + 1)..Len(j.members) : j.members[m][1] # k
    IN  j.members[i][2]

\* The body of this pass is an object whose success member is false.
ReportsFailure ==
    /\ GotBody
    /\ lastNet.text.t = "object"
    /\ HasMember(lastNet.text, "success")
    /\ LastMember(lastNet.text, "success") = JFalse

\* The body of this pass is an object without a success member.
ReportsNothing ==
    /\ GotBody
    /\ lastNet.text.t = "object"
    /\ ~HasMember(lastNet.text, "success")

CarriesMessage == HasMember(lastNet.text, "message")

ServerMessage == LastMember(lastNet.text, "message").s

\* The texts of the exceptions a malformed body raises in a handler.
PyTypes == {"NoneType", "list", "bool", "str", "float", "dict"}
ExceptionTexts ==
    {"Expecting value: line 1 column 1 (char 0)",
     "string indices must be integers",
     "list indices must be integers or slices, not str"}
        \cup {"'" \o k \o "'" :
                k \in {"success", "symbols", "result", "query", "amount", "from", "to",
                       "base", "date", "rates"}}
        \cup {"'" \o t \o "' object is not subscriptable" : t \in PyTypes}
        \cup {"'" \o t \o "' object has no attribute '" \o a \o "'" :
                t \in PyTypes, a \in {"get", "items"}}

\* The last line of this pass is the error line of a handler's except clause.
ErrorPrinted ==
    /\ Len(out) > 0
    /\ \E e \in ExceptionTexts : out[Len(out)] = "Request failed with error: " \o e

\* C1: a menu text that is no integer never ends the program: once main has
\* dealt with it, the invalid-input line is printed, the process is running
\* and main is at its menu prompt again.
C1_UnparseableMenuTextReprompts ==
    \A i \in 1..Len(typed) :
        ~IntOfText(typed[i]).ok =>
            \/ pc = "int"
            \/ /\ status = "running"
               /\ pc = "menu"
               /\ out = <<InvalidLine>>

\* C2: when the GET of a handler fails (no response, or an error status),
\* the handler prints the error line carrying make_get_request's message
\* and nothing else, and returns: the process is running and main is at its
\* menu prompt.
C2_FailedRequestIsPrintedAndSurvived ==
    RequestFailed =>
        /\ lastResult.raised
        /\ out = <<"Request failed with error: " \o lastResult.msg>>
        /\ status = "running"
        /\ pc = "menu"
        /\ ENABLED main_input

C2_Witness ==
    /\ RequestFailed
    /\ call.name = "convert_currency"
    /\ lastNet.status = 404
    /\ pc = "menu"

\* C3: once choice 4 is read, nothing happens but quit_program: no prompt,
\* no GET issued or in flight, and the process ends with exit status 0
\* after printing the farewell line; the process ends with status 0 in no
\* other way.
C3_QuitExitsWithoutRequest ==
    /\ (choice = 4 /\ pc # "int") => pc \in {"handle_choices", "quit_program", "exited"}
    /\ (choice = 4 /\ pc = "handle_choices") => ENABLED handle_choices
    /\ pc = "quit_program" =>
        /\ choice = 4
        /\ ENABLED quit_program
    /\ handler = "quit_program" =>
        /\ choice = 4
        /\ gets = 0
        /\ inflight = NoRequest
        /\ lastNet = NoNet
        /\ prompts = <<>>
        /\ pc \in {"quit_program", "exited"}
    /\ pc = "exited" =>
        /\ status = "exit0"
        /\ handler = "quit_program"
        /\ out = <<"See ya!!">>
    /\ status = "exit0" => pc = "exited"

C3_Witness == pc = "exited" /\ status = "exit0" /\ seenMalformed

\* C4: when convert_currency gets an object whose success member is false
\* or missing, it prints one line and no other: the fixed prefix followed
\* by the value of the message member, or by 'An unknown error occurred'
\* when the object has no message member.
C4_ConvertFailureSurfacesMessage ==
    (call.name = "convert_currency" /\ (ReportsFailure \/ ReportsNothing)) =>
        out = <<"Error while accessing symbols: "
                  \o (IF CarriesMessage THEN ServerMessage
                      ELSE "An unknown error occurred")>>

C4_Witness ==
    /\ call.name = "convert_currency"
    /\ ReportsFailure
    /\ CarriesMessage
    /\ ServerMessage = "Rate limit exceeded"

\* The ways a line can carry a message: alone, or after one of the
\* handlers' prefixes.
Mentions(line, msg) ==
    \E prefix \in {"", "Error while accessing symbols: ", "Error while accessing data: ",
                   "Error: "} :
        line = prefix \o msg

\* C5 as stated: each of the three handlers, on an object whose success
\* member is false, prints the server's message when the object carries
\* one.
C5_EveryHandlerPrintsServerMessage ==
    (ReportsFailure /\ CarriesMessage) =>
        \E i \in 1..Len(out) : Mentions(out[i], ServerMessage)

\* C5 as amended: on an object whose success member is false,
\* convert_currency prints the server's message when there is one and the
\* generic fallback when there is none; get_currencies and
\* get_exchange_rate print their fixed line whether or not the object
\* carries a message.
C5_OnlyConvertPrintsServerMessage ==
    ReportsFailure =>
        out = CASE call.name = "convert_currency" ->
                     <<"Error while accessing symbols: "
                         \o (IF CarriesMessage THEN ServerMessage
                             ELSE "An unknown error occurred")>>
                [] call.name = "get_currencies" -> <<"Error while accessing symbols">>
                [] call.name = "get_exchange_rate" -> <<"Error while accessing data">>

C5_Witness ==
    /\ call.name = "get_currencies"
    /\ ReportsFailure
    /\ CarriesMessage
    /\ out = <<"Error while accessing symbols">>

\* The symbols member of the body of this pass, when it is an object.
SymbolsText == LastMember(lastNet.text, "symbols")

SuccessfulSymbols ==
    /\ call.name = "get_currencies"
    /\ GotBody
    /\ lastNet.text.t = "object"
    /\ HasMember(lastNet.text, "success")
    /\ LastMember(lastNet.text, "success") = JTrue
    /\ HasMember(lastNet.text, "symbols")
    /\ SymbolsText.t = "object"

\* C6: when get_currencies gets success true and a symbols mapping, it
\* prints as many lines as the mapping has codes, and for every code
\* exactly one line "code: description" with the description the mapping
\* holds for it; so no code is left out or printed twice and no other line
\* (an error line) is printed.
C6_EverySymbolPrintedOnce ==
    SuccessfulSymbols =>
        LET codes == {SymbolsText.members[i][1] : i \in 1..Len(SymbolsText.members)}
        IN  /\ Len(out) = Cardinality(codes)
            /\ \A c \in codes :
                Cardinality({i \in 1..Len(out) :
                    out[i] = c \o ": " \o LastMember(SymbolsText, c).s}) = 1

C6_Witness ==
    /\ SuccessfulSymbols
    /\ out = <<"USD: United States Dollar", "EUR: Euro">>

\* C7: a pass of the loop issues one GET when the choice is 1, 2 or 3 and
\* none otherwise (quit, an integer without handler, a text that is no
\* integer); never more than one; and a GET is in flight only while the
\* handler is blocked in it, never while main or the dispatcher reads input.
C7_OneGetPerAction ==
    /\ gets <= 1
    /\ inflight # NoRequest => pc = "request"
    /\ pc = "request" => (gets = 1 /\ inflight # NoRequest /\ choice \in {1, 2, 3})
    /\ lastNet # NoNet => (gets = 1 /\ pc = "menu")
    /\ (pc = "menu" /\ handler # "") => gets = (IF choice \in {1, 2, 3} THEN 1 ELSE 0)
    /\ (pc = "menu" /\ handler # "" /\ choice \in {1, 2, 3}) => lastNet # NoNet
    /\ pc \in {"exited", "crashed", "int", "input", "handle_choices"} => gets = 0

C7_Witness == pc = "menu" /\ gets = 1 /\ choice = 3 /\ RequestFailed

\* The URL of the GET of this pass.
CallEndpoint ==
    CASE call.name = "get_currencies" -> SymbolsEndpoint
      [] call.name = "convert_currency" ->
            ConvertEndpoint(call.args[1], call.args[2], call.args[3])
      [] call.name = "get_exchange_rate" -> LatestEndpoint(call.args[1], call.args[2])

\* C8 as stated: make_get_request raises on a network failure and on every
\* status outside 200..299, and returns the body unchanged otherwise.
C8_RaisesOnEveryNon2xx ==
    lastNet # NoNet =>
        IF lastNet.kind = "transport" \/ lastNet.status \notin 200..299
        THEN lastResult.raised
        ELSE ~lastResult.raised /\ lastResult.value = lastNet.text

\* C8 as amended: make_get_request raises on a network failure and on a
\* 4xx or 5xx status, with a message that carries the cause, and returns no
\* body then; on every other status (2xx, and a 3xx status requests does
\* not follow, such as 304) it returns the body unchanged and raises
\* nothing.
C8_RaisesOnTransportOr4xx5xx ==
    lastNet # NoNet =>
        IF lastNet.kind = "transport"
        THEN /\ lastResult.raised
             /\ lastResult.msg = "Request failed with error: " \o lastNet.cause
             /\ lastResult.value = JGarbage
        ELSE IF lastNet.status \in 400..599
        THEN /\ lastResult.raised
             /\ \E class \in {" Client Error: ", " Server Error: "} :
                    lastResult.msg = "Request failed with error: "
                        \o StatusText(lastNet.status) \o class \o Reason(lastNet.status)
                        \o " for url: " \o CallEndpoint
             /\ lastResult.value = JGarbage
        ELSE /\ ~lastResult.raised
             /\ lastResult.msg = ""
             /\ lastResult.value = lastNet.text

C8_Witness ==
    /\ lastNet.kind = "http"
    /\ lastNet.status = 304
    /\ ~lastResult.raised
    /\ lastResult.value = lastNet.text

IsPrefix(p, q) == Len(p) <= Len(q) /\ SubSeq(q, 1, Len(p)) = p

\* C9: the dispatcher reads from-currency, to-currency and amount, in this
\* order, for choice 2 and calls convert_currency with them; reads base
\* and symbols, in this order, for choice 3 and calls get_exchange_rate
\* with them; reads nothing for choices 1 and 4 and for an integer without
\* handler, for which it calls no handler and prints the invalid-input
\* line.  Every read comes before the call, hence before the request.
C9_PromptsOnlyForHandlersThatNeedThem ==
    /\ Len(inputs) = Len(prompts)
    /\ pc = "input" =>
        /\ call = NoCall
        /\ gets = 0
        /\ choice \in {2, 3}
    /\ prompts # <<>> => choice \in {2, 3}
    /\ choice = 2 =>
        IsPrefix(prompts, <<"Enter the from currency: ", "Enter the to currency: ",
                            "Enter the amount: ">>)
    /\ choice = 3 =>
        IsPrefix(prompts,
                 <<"Enter the three-letter currency code of your preferred base currency: ",
                   "Enter a list of comma-separated currency codes to limit output currencies: ">>)
    /\ call.name = "convert_currency" =>
        /\ choice = 2
        /\ Len(prompts) = 3
        /\ call.args = inputs
    /\ call.name = "get_exchange_rate" =>
        /\ choice = 3
        /\ Len(prompts) = 2
        /\ call.args = inputs
    /\ call.name = "get_currencies" => (choice = 1 /\ prompts = <<>> /\ call.args = <<>>)
    /\ call.name = "quit_program" => (choice = 4 /\ prompts = <<>> /\ call.args = <<>>)
    /\ (pc = "request" /\ choice = 2) =>
        inflight.endpoint = "https://api.apilayer.com/fixer/convert?to=" \o inputs[2]
                                \o "&from=" \o inputs[1] \o "&amount=" \o inputs[3]
    /\ handler = "None" =>
        /\ choice \notin 1..4
        /\ call = NoCall
        /\ prompts = <<>>
        /\ gets = 0
        /\ out = <<"Invalid input. Please enter a valid choice.">>
        /\ pc = "menu"
    /\ (pc \in {"menu", "request"} /\ handler # "" /\ choice \in 1..3) =>
        call.name = handler

C9_Witness ==
    /\ pc = "request"
    /\ call = [name |-> "convert_currency", args |-> <<"USD", "EUR", "10">>]
    /\ prompts = <<PromptFrom, PromptTo, PromptAmount>>

\* C10: a malformed 2xx answer is never fatal: the handler prints an error
\* line and returns to the menu with the process running; and after such
\* answers the process ends in no other way than by the quit action.
C10_MalformedResponseNeverFatal ==
    /\ (lastNet # NoNet /\ Malformed(call.name, lastNet)) =>
        /\ ErrorPrinted
        /\ status = "running"
        /\ pc = "menu"
    /\ (seenMalformed /\ status # "running") =>
        /\ status = "exit0"
        /\ handler = "quit_program"

\* The part of C10 that is about the handlers alone.
HandlersSurviveMalformedResponse ==
    (lastNet # NoNet /\ Malformed(call.name, lastNet)) =>
        /\ ErrorPrinted
        /\ status = "running"
        /\ pc = "menu"

====
